---- MODULE Spec2Model ----
(***************************************************************************)
(* Model of bettermail (src/app/bettermail.go): GitHub webhook events are   *)
(* turned into e-mail notifications, and the datastore kind EmailThread     *)
(* maps a commit SHA to the subject of the push mail that announced it, so  *)
(* that later commit-comment mails reuse that subject.                      *)
(*                                                                         *)
(* Strings are TLA+ strings; fmt.Sprintf is \o, s[:7] and s[11:] are SubSeq.*)
(* A Go pointer field that the JSON body does not carry is a field missing  *)
(* from the payload record (nil); dereferencing it panics.                  *)
(* Timestamps and their formatting (PushedAt, UpdatedAt, safeFormattedDate) *)
(* only feed the rendered HTML and are left out of the template data.       *)
(***************************************************************************)
EXTENDS Integers, Sequences, FiniteSets, TLC

(***************************************************************************)
(* Bounds                                                                  *)
(***************************************************************************)
\* longest commit list of a push payload
MaxCommits == 2

(***************************************************************************)
(* Input universe                                                          *)
(***************************************************************************)
Repo == [FullName |-> "org/repo", URL |-> "https://github.com/org/repo"]

CompareURL == "https://github.com/org/repo/compare/abc1234...def5678"

\* appengine.AppID(c)
AppID == "bettermail"

\* Raw commit records of push payloads.  The two ids share their first seven
\* characters.
Commits ==
  { [ID |-> "abc1234e", Message |-> "Fix bug\n\nLong description",
     Author    |-> [Username |-> "alice", Name |-> "Alice A"],
     Committer |-> [Username |-> "alice", Name |-> "Alice (web)"]],
    [ID |-> "abc1234f", Message |-> "Add test",
     Author    |-> [Username |-> "bob",   Name |-> "Bob B"],
     Committer |-> [Username |-> "alice", Name |-> "Alice (web)"]] }

SHAs == { c.ID : c \in Commits }

\* the commit lists of push payloads, the empty list included
CommitSeqs == UNION { [1..n -> Commits] : n \in 0..MaxCommits }

Pushers == { "alice", "bob" }

PushPayload(ref, pusher, commits) ==
  [Ref |-> ref, Compare |-> CompareURL, Repo |-> Repo,
   Pusher |-> [Name |-> pusher], Commits |-> commits]

\* pushes to a branch by every pusher, and pushes whose ref is shorter than
\* the 11 characters of "refs/heads/"
PushPayloads ==
  { PushPayload("refs/heads/main", p, cs) : p \in Pushers, cs \in CommitSeqs }
  \cup { PushPayload("refs/tags", "alice", cs) : cs \in { x \in CommitSeqs : Len(x) <= 1 } }

\* commit ids a comment may name: the pushed ones, one never pushed, and one
\* shorter than seven characters
CommentSHAs == SHAs \cup { "0123456789", "abc12" }

CommentBodies == { "", "LGTM **nice**" }

CommentPayloads ==
  { [Repo |-> Repo, Comment |-> [CommitID |-> id, Body |-> b],
     Sender |-> [Login |-> "dave"]] :
       id \in CommentSHAs, b \in CommentBodies }
  \cup
  \* a comment body without the "sender" object
  { [Repo |-> Repo, Comment |-> [CommitID |-> "abc1234e", Body |-> "LGTM **nice**"]] }

\* a request body json.Decoder rejects
Malformed == [malformed |-> TRUE]

\* one well-formed body of each shape, sent under any event type
SamplePush ==
  PushPayload("refs/heads/main", "alice", << CHOOSE c \in Commits : c.ID = "abc1234e" >>)

SampleComment ==
  [Repo |-> Repo, Comment |-> [CommitID |-> "abc1234e", Body |-> "LGTM **nice**"],
   Sender |-> [Login |-> "dave"]]

\* the requests GitHub (or anyone) may post to /hook: X-Github-Event and body
Requests ==
  { [eventType |-> "push", body |-> b] :
      b \in PushPayloads \cup { Malformed, SampleComment } }
  \cup
  { [eventType |-> "commit_comment", body |-> b] :
      b \in CommentPayloads \cup { Malformed, SamplePush } }
  \cup
  { [eventType |-> t, body |-> b] :
      t \in { "issues", "" }, b \in { Malformed, SamplePush, SampleComment } }

Slots == { 1, 2 }

NoMessage == [nil |-> TRUE]

NoLocals == [nil |-> TRUE]

NoPush == [nil |-> TRUE]

(***************************************************************************)
(* State                                                                   *)
(***************************************************************************)
VARIABLES
  datastore,     \* entities of kind EmailThread: [key, thread]
  devAppServer,  \* appengine.IsDevAppServer()
  live,          \* request slots the server runs
  pc,            \* per request: position in hookHandler
  request,       \* per request: [eventType, body]
  locals,        \* per request: locals of the running processor
  message,       \* per request: the *mail.Message returned by handlePayload
  status,        \* per request: how hookHandler ended
  threadLog,     \* per request: outcome of each createThread call, in order
  readHit,       \* per request: datastore.Get returned an entity
  mdCalls,       \* per request: calls of renderMessageMarkdown
  sendCalls,     \* per request: calls of mail.Send
  lastPush,      \* history: per SHA, PushOf the push whose createThread last
                 \*          stored it
  firstFull      \* history: per SHA, subject of the first push holding it
                 \*          whose createThread calls all succeeded

vars == << datastore, devAppServer, live, pc, request, locals, message,
           status, threadLog, readHit, mdCalls, sendCalls, lastPush,
           firstFull >>

(***************************************************************************)
(* Helpers                                                                 *)
(***************************************************************************)
\* a pointer field the body did not carry is nil
IsNil(rec, f) == f \notin DOMAIN rec

\* s[:n] of Go; the caller has checked Len(s) >= n (Go panics otherwise)
Prefix(s, n) == SubSeq(s, 1, n)

\* s[n:] of Go; the caller has checked Len(s) >= n
Suffix(s, n) == SubSeq(s, n + 1, Len(s))

\* the text before the first newline, the whole text when there is none
RECURSIVE FirstLine(_)
FirstLine(s) ==
  IF s = "" THEN ""
  ELSE IF Prefix(s, 1) = "\n" THEN ""
       ELSE Prefix(s, 1) \o FirstLine(Suffix(s, 1))

\* DisplayCommit of one raw commit (dates and author display name left out)
newDisplayCommit(commit, repo) ==
  [ SHA      |-> commit.ID,
    ShortSHA |-> Prefix(commit.ID, 7),
    URL      |-> repo.URL \o "/commit/" \o commit.ID,
    Title    |-> FirstLine(commit.Message) ]

\* the Markdown-to-HTML collaborator
renderMessageMarkdown(body) == "<p>" \o body \o "</p>"

\* templates[name].Execute: the HTML is a function of the name and the data
Execute(name, data) == [Template |-> name, Data |-> data]

getRecipient == IF devAppServer THEN "mihai@quip.com" ELSE "eng+commits@quip.com"

\* the address written without the angle brackets around the mailbox
SenderAddressBare(senderName, senderUserName) ==
  senderName \o " " \o senderUserName \o "@" \o AppID \o ".appspotmail.com"

\* fmt.Sprintf("%s <%s@%s.appspotmail.com>", ...)
SenderAddress(senderName, senderUserName) ==
  senderName \o " <" \o senderUserName \o "@" \o AppID \o ".appspotmail.com>"

(***************************************************************************)
(* Datastore, kind EmailThread, keyed by the commit SHA                     *)
(***************************************************************************)
EmailThread(sha, subject) == [CommitSHA |-> sha, Subject |-> subject]

\* a Put that adds an entity and keeps the one the key already has
DatastoreInsert(ds, key, entity) ==
  ds \cup { [key |-> key, thread |-> entity] }

\* datastore.Put with a complete key: insert, or replace the entity of the key
DatastorePut(ds, key, entity) ==
  { e \in ds : e.key # key } \cup { [key |-> key, thread |-> entity] }

\* the entities datastore.Get can load for a key
DatastoreGet(ds, key) == { e.thread : e \in { x \in ds : x.key = key } }

\* getSubjectForCommit returning the entity's key field instead of its Subject
getSubjectResultSHA(ds, sha, getErr) ==
  IF getErr \/ DatastoreGet(ds, sha) = {}
  THEN ""
  ELSE (CHOOSE t \in DatastoreGet(ds, sha) : TRUE).CommitSHA

\* getSubjectForCommit handing the text of the Get error to its caller
getSubjectResultErrText(ds, sha, getErr) ==
  IF getErr THEN "datastore: get failed"
  ELSE IF DatastoreGet(ds, sha) = {}
  THEN ""
  ELSE (CHOOSE t \in DatastoreGet(ds, sha) : TRUE).Subject

\* what getSubjectForCommit returns: "" when Get fails (err # nil), the stored
\* Subject otherwise
getSubjectResult(ds, sha, getErr) ==
  IF getErr \/ DatastoreGet(ds, sha) = {}
  THEN ""
  ELSE (CHOOSE t \in DatastoreGet(ds, sha) : TRUE).Subject

(***************************************************************************)
(* handlePushPayload, lines 106-155: everything before the first           *)
(* createThread call                                                       *)
(***************************************************************************)
PayloadCommits(payload) ==
  IF IsNil(payload, "Commits") THEN << >> ELSE payload.Commits

\* the dereferences, slices and index of lines 110-155 that panic
PushPanics(payload) ==
  \/ IsNil(payload, "Ref")
  \/ IsNil(payload, "Repo")
  \/ IsNil(payload, "Pusher")
  \/ Len(payload.Ref) < 11
  \/ Len(PayloadCommits(payload)) = 0
  \/ (Len(PayloadCommits(payload)) > 1 /\ IsNil(payload, "Compare"))

DisplayCommits(payload) ==
  [ i \in 1..Len(PayloadCommits(payload)) |->
      newDisplayCommit(PayloadCommits(payload)[i], payload.Repo) ]

BranchName(payload) == Suffix(payload.Ref, 11)
\* the compare URL chosen only from three commits on
ExtensionURLOffByOne(payload) ==
  IF Len(DisplayCommits(payload)) > 2
  THEN payload.Compare
  ELSE DisplayCommits(payload)[1].URL

ExtensionURL(payload) ==
  IF Len(DisplayCommits(payload)) > 1
  THEN payload.Compare
  ELSE DisplayCommits(payload)[1].URL

\* the scan comparing the committer before the author
RECURSIVE SenderNameFromCommitterFirst(_, _)
SenderNameFromCommitterFirst(commits, senderUserName) ==
  IF commits = << >> THEN senderUserName
  ELSE IF Head(commits).Committer.Username = senderUserName
       THEN Head(commits).Committer.Name
       ELSE IF Head(commits).Author.Username = senderUserName
            THEN Head(commits).Author.Name
            ELSE SenderNameFromCommitterFirst(Tail(commits), senderUserName)

\* lines 137-151: the display name of the pusher
RECURSIVE SenderNameFrom(_, _)
SenderNameFrom(commits, senderUserName) ==
  IF commits = << >> THEN senderUserName
  ELSE IF Head(commits).Author.Username = senderUserName
       THEN Head(commits).Author.Name
       ELSE IF Head(commits).Committer.Username = senderUserName
            THEN Head(commits).Committer.Name
            ELSE SenderNameFrom(Tail(commits), senderUserName)

PushSenderName(payload) ==
  SenderNameFrom(PayloadCommits(payload), payload.Pusher.Name)
\* the subject taken from the last commit of the push instead of the first
PushSubjectLast(payload) ==
  "[" \o payload.Repo.FullName \o "] "
      \o DisplayCommits(payload)[Len(DisplayCommits(payload))].ShortSHA
      \o ": " \o DisplayCommits(payload)[Len(DisplayCommits(payload))].Title

\* lines 154-155
PushSubject(payload) ==
  "[" \o payload.Repo.FullName \o "] " \o DisplayCommits(payload)[1].ShortSHA
      \o ": " \o DisplayCommits(payload)[1].Title

PushData(payload) ==
  [ Commits      |-> DisplayCommits(payload),
    BranchName   |-> BranchName(payload),
    BranchURL    |-> "https://github.com/" \o payload.Repo.FullName
                       \o "/tree/" \o BranchName(payload),
    ExtensionURL |-> ExtensionURL(payload) ]

PushLocals(payload) ==
  [ displayCommits |-> DisplayCommits(payload),
    mailHtml       |-> Execute("push", PushData(payload)),
    sender         |-> SenderAddress(PushSenderName(payload), payload.Pusher.Name),
    subject        |-> PushSubject(payload) ]

(***************************************************************************)
(* handleCommitCommentPayload, lines 170-203: everything before the        *)
(* registry read                                                           *)
(***************************************************************************)
\* lines 173-179: the dereferences and the slice before the Markdown call
CommentPanics(payload) ==
  \/ IsNil(payload, "Comment")
  \/ IsNil(payload, "Repo")
  \/ IsNil(payload.Comment, "CommitID")
  \/ IsNil(payload.Comment, "Body")
  \/ Len(payload.Comment.CommitID) < 7

\* line 200: the dereference after the template has been executed
CommentPanicsLate(payload) == IsNil(payload, "Sender")

\* the body sent to the Markdown collaborator whatever its length
CommentBodyAlways(payload) == renderMessageMarkdown(payload.Comment.Body)

\* lines 179-182
CommentBody(payload) ==
  IF Len(payload.Comment.Body) > 0
  THEN renderMessageMarkdown(payload.Comment.Body)
  ELSE payload.Comment.Body

CommentMarkdownCalls(payload) ==
  IF Len(payload.Comment.Body) > 0 THEN 1 ELSE 0

CommentData(payload) ==
  [ ShortSHA  |-> Prefix(payload.Comment.CommitID, 7),
    Body      |-> CommentBody(payload),
    CommitURL |-> payload.Repo.URL \o "/commit/" \o payload.Comment.CommitID ]

CommentLocals(payload) ==
  [ commitSHA      |-> payload.Comment.CommitID,
    commitShortSHA |-> Prefix(payload.Comment.CommitID, 7),
    mailHtml       |-> Execute("commit-comment", CommentData(payload)),
    sender         |-> SenderAddress(payload.Sender.Login, payload.Sender.Login) ]

\* the fallback built in the format of a push subject
FallbackSubjectColon(payload) ==
  "[" \o payload.Repo.FullName \o "] " \o Prefix(payload.Comment.CommitID, 7) \o ": "

\* line 206
FallbackSubject(payload) ==
  "[" \o payload.Repo.FullName \o "] " \o Prefix(payload.Comment.CommitID, 7)

(***************************************************************************)
(* Requests                                                                *)
(***************************************************************************)
\* what the history keeps of the push a registry entry came from: the
\* repository and the first commit, the two things its subject is built from
PushOf(payload) == [Repo |-> payload.Repo, Commits |-> << payload.Commits[1] >>]

\* a request enters a processor, or ends inside handlePayload
Enter(s, pcv, loc, stat, md) ==
  /\ pc' = [pc EXCEPT ![s] = pcv]
  /\ locals' = [locals EXCEPT ![s] = loc]
  /\ status' = [status EXCEPT ![s] = stat]
  /\ mdCalls' = [mdCalls EXCEPT ![s] = md]
  /\ message' = [message EXCEPT ![s] = NoMessage]
  /\ threadLog' = [threadLog EXCEPT ![s] = << >>]
  /\ readHit' = [readHit EXCEPT ![s] = FALSE]
  /\ sendCalls' = [sendCalls EXCEPT ![s] = 0]

\* handlePushPayload skipping the first display commit when there is none and
\* returning a message for the empty push
handlePushPayloadEmptyOK(s, payload, renderErr) ==
  IF /\ Len(PayloadCommits(payload)) = 0
     /\ ~IsNil(payload, "Ref") /\ ~IsNil(payload, "Repo") /\ ~IsNil(payload, "Pusher")
     /\ Len(payload.Ref) >= 11
  THEN LET loc == [ displayCommits |-> << >>,
                    mailHtml       |-> Execute("push", [Payload |-> payload]),
                    sender         |-> SenderAddress(payload.Pusher.Name,
                                                     payload.Pusher.Name),
                    subject        |-> "[" \o payload.Repo.FullName \o "] " ]
       IN /\ pc' = [pc EXCEPT ![s] = "send"]
          /\ locals' = [locals EXCEPT ![s] = loc]
          /\ status' = [status EXCEPT ![s] = "running"]
          /\ mdCalls' = [mdCalls EXCEPT ![s] = 0]
          /\ message' = [message EXCEPT ![s] =
                           [ Sender   |-> loc.sender,
                             To       |-> << getRecipient >>,
                             Subject  |-> loc.subject,
                             HTMLBody |-> loc.mailHtml ]]
          /\ threadLog' = [threadLog EXCEPT ![s] = << >>]
          /\ readHit' = [readHit EXCEPT ![s] = FALSE]
          /\ sendCalls' = [sendCalls EXCEPT ![s] = 0]
  ELSE IF PushPanics(payload)
       THEN Enter(s, "done", NoLocals, "panic", 0)
       ELSE IF renderErr
            THEN Enter(s, "done", NoLocals, "error", 0)
            ELSE Enter(s, "createThread", PushLocals(payload), "running", 0)

\* handlePushPayload up to line 155
handlePushPayload(s, payload, renderErr) ==
  IF PushPanics(payload)
  THEN Enter(s, "done", NoLocals, "panic", 0)
  ELSE IF renderErr
       THEN Enter(s, "done", NoLocals, "error", 0)
       ELSE Enter(s, "createThread", PushLocals(payload), "running", 0)

\* handleCommitCommentPayload up to line 203
handleCommitCommentPayload(s, payload, renderErr) ==
  IF CommentPanics(payload)
  THEN Enter(s, "done", NoLocals, "panic", 0)
  ELSE IF renderErr
       THEN Enter(s, "done", NoLocals, "error", CommentMarkdownCalls(payload))
       ELSE IF CommentPanicsLate(payload)
            THEN Enter(s, "done", NoLocals, "panic", CommentMarkdownCalls(payload))
            ELSE Enter(s, "getSubject", CommentLocals(payload), "running",
                       CommentMarkdownCalls(payload))

\* handlePayload decoding the body before looking at the event type
handlePayloadDecodeFirst(s, eventType, body, renderErr) ==
  IF body = Malformed
  THEN Enter(s, "done", NoLocals, "error", 0)
  ELSE IF eventType = "push"
       THEN handlePushPayload(s, body, renderErr)
       ELSE IF eventType = "commit_comment"
            THEN handleCommitCommentPayload(s, body, renderErr)
            ELSE Enter(s, "done", NoLocals, "unhandled", 0)

\* handlePayload, lines 86-104, with hookHandler's handling of its error and
\* nil results (lines 66-75)
handlePayload(s, eventType, body, renderErr) ==
  IF eventType = "push"
  THEN IF body = Malformed
       THEN Enter(s, "done", NoLocals, "error", 0)
       ELSE handlePushPayload(s, body, renderErr)
  ELSE IF eventType = "commit_comment"
       THEN IF body = Malformed
            THEN Enter(s, "done", NoLocals, "error", 0)
            ELSE handleCommitCommentPayload(s, body, renderErr)
       ELSE Enter(s, "done", NoLocals, "unhandled", 0)

\* a request arrives: hookHandler, lines 62-75, runs it up to its first call
\* of the datastore
hookHandler(s) ==
  /\ s \in live
  /\ pc[s] \in { "idle", "done" }
  /\ \E r \in Requests, renderErr \in BOOLEAN :
       /\ request' = [request EXCEPT ![s] = r]
       /\ handlePayload(s, r.eventType, r.body, renderErr)
  /\ UNCHANGED << datastore, devAppServer, live, lastPush, firstFull >>

\* createThread building the key from the short commit id
createThreadShortKey(ds, sha, subject, putErr) ==
  IF putErr THEN ds
  ELSE DatastorePut(ds, Prefix(sha, 7), EmailThread(sha, subject))

\* createThread filling the two fields of the entity the wrong way round
createThreadSwapped(ds, sha, subject, putErr) ==
  IF putErr THEN ds ELSE DatastorePut(ds, sha, EmailThread(subject, sha))

\* createThread keeping the entity a commit already has (write once)
createThreadWriteOnce(ds, sha, subject, putErr) ==
  IF putErr \/ DatastoreGet(ds, sha) # {}
  THEN ds
  ELSE DatastorePut(ds, sha, EmailThread(sha, subject))

\* createThread, lines 37-49: the registry after the call; a failed Put is
\* logged and changes nothing
createThread(ds, sha, subject, putErr) ==
  IF putErr THEN ds ELSE DatastorePut(ds, sha, EmailThread(sha, subject))

\* lines 161-166
NewMessage(s, subject) ==
  [ Sender   |-> locals[s].sender,
    To       |-> << getRecipient >>,
    Subject  |-> subject,
    HTMLBody |-> locals[s].mailHtml ]

\* the message returned after the first createThread call, the remaining
\* commits left unregistered
createThreadStepEarlyReturn(s) ==
  /\ pc[s] = "createThread"
  /\ LET commit   == locals[s].displayCommits[1]
         subject  == locals[s].subject
     IN \E putErr \in BOOLEAN :
          /\ datastore' = createThread(datastore, commit.SHA, subject, putErr)
          /\ threadLog' = [threadLog EXCEPT ![s] =
                             << IF putErr THEN "failed" ELSE "created" >>]
          /\ lastPush' =
               IF putErr THEN lastPush
               ELSE [lastPush EXCEPT ![commit.SHA] = PushOf(request[s].body)]
          /\ pc' = [pc EXCEPT ![s] = "send"]
          /\ message' = [message EXCEPT ![s] = NewMessage(s, subject)]
  /\ UNCHANGED << devAppServer, live, request, locals, status, readHit, mdCalls,
                  sendCalls, firstFull >>

\* the loop giving up, and the request failing, at the first Put that fails
createThreadStepFatal(s) ==
  /\ pc[s] = "createThread"
  /\ LET i        == Len(threadLog[s]) + 1
         commit   == locals[s].displayCommits[i]
         subject  == locals[s].subject
         last     == i = Len(locals[s].displayCommits)
     IN \E putErr \in BOOLEAN :
          /\ datastore' = createThread(datastore, commit.SHA, subject, putErr)
          /\ threadLog' = [threadLog EXCEPT ![s] =
                             Append(@, IF putErr THEN "failed" ELSE "created")]
          /\ lastPush' =
               IF putErr THEN lastPush
               ELSE [lastPush EXCEPT ![commit.SHA] = PushOf(request[s].body)]
          /\ pc' = [pc EXCEPT ![s] =
                      IF putErr THEN "done"
                      ELSE IF last THEN "send" ELSE "createThread"]
          /\ status' = [status EXCEPT ![s] = IF putErr THEN "error" ELSE @]
          /\ message' =
               IF last /\ ~putErr
               THEN [message EXCEPT ![s] = NewMessage(s, subject)]
               ELSE message
  /\ UNCHANGED << devAppServer, live, request, locals, readHit, mdCalls,
                  sendCalls, firstFull >>

\* one iteration of the loop of lines 157-159; after the last one the message
\* of lines 161-167 is returned to hookHandler
createThreadStep(s) ==
  /\ pc[s] = "createThread"
  /\ LET i        == Len(threadLog[s]) + 1
         commit   == locals[s].displayCommits[i]
         subject  == locals[s].subject
         last     == i = Len(locals[s].displayCommits)
         payload  == request[s].body
     IN \E putErr \in BOOLEAN :
          LET log == Append(threadLog[s], IF putErr THEN "failed" ELSE "created")
          IN /\ datastore' = createThread(datastore, commit.SHA, subject, putErr)
             /\ threadLog' = [threadLog EXCEPT ![s] = log]
             /\ lastPush' =
                  IF putErr THEN lastPush
                  ELSE [lastPush EXCEPT ![commit.SHA] = PushOf(payload)]
             /\ firstFull' =
                  IF last /\ \A k \in DOMAIN log : log[k] # "failed"
                  THEN [ sha \in DOMAIN firstFull |->
                           IF /\ firstFull[sha] = ""
                              /\ \E k \in DOMAIN log :
                                   locals[s].displayCommits[k].SHA = sha
                           THEN subject
                           ELSE firstFull[sha] ]
                  ELSE firstFull
             /\ pc' = [pc EXCEPT ![s] = IF last THEN "send" ELSE "createThread"]
             /\ message' =
                  IF last
                  THEN [message EXCEPT ![s] = NewMessage(s, subject)]
                  ELSE message
  /\ UNCHANGED << devAppServer, live, request, locals, status, readHit,
                  mdCalls, sendCalls >>

\* lines 204-207: the stored subject, or the fallback when there is none
CommentSubject(ds, payload, getErr) ==
  LET stored == getSubjectResult(ds, payload.Comment.CommitID, getErr)
  IN IF stored = "" THEN FallbackSubject(payload) ELSE stored

\* the registry read storing the fallback subject it built on a miss
getSubjectForCommitCaching(s) ==
  /\ pc[s] = "getSubject"
  /\ \E getErr \in BOOLEAN :
       LET stored  == getSubjectResult(datastore, locals[s].commitSHA, getErr)
           subject == IF stored = "" THEN FallbackSubject(request[s].body)
                      ELSE stored
       IN /\ readHit' = [readHit EXCEPT ![s] =
                           ~getErr /\ DatastoreGet(datastore, locals[s].commitSHA) # {}]
          /\ message' = [message EXCEPT ![s] = NewMessage(s, subject)]
          /\ datastore' = IF stored = ""
                          THEN DatastorePut(datastore, locals[s].commitSHA,
                                            EmailThread(locals[s].commitSHA, subject))
                          ELSE datastore
  /\ pc' = [pc EXCEPT ![s] = "send"]
  /\ UNCHANGED << devAppServer, live, request, locals, status,
                  threadLog, mdCalls, sendCalls, lastPush, firstFull >>

\* the registry read waiting until no push is between its createThread calls
getSubjectForCommitLocked(s) ==
  /\ pc[s] = "getSubject"
  /\ \A p \in Slots : pc[p] # "createThread"
  /\ \E getErr \in BOOLEAN :
       LET stored  == getSubjectResult(datastore, locals[s].commitSHA, getErr)
           subject == IF stored = "" THEN FallbackSubject(request[s].body)
                      ELSE stored
       IN /\ readHit' = [readHit EXCEPT ![s] =
                           ~getErr /\ DatastoreGet(datastore, locals[s].commitSHA) # {}]
          /\ message' = [message EXCEPT ![s] = NewMessage(s, subject)]
  /\ pc' = [pc EXCEPT ![s] = "send"]
  /\ UNCHANGED << datastore, devAppServer, live, request, locals, status,
                  threadLog, mdCalls, sendCalls, lastPush, firstFull >>

\* lines 204-215: getSubjectForCommit, lines 51-60, the fallback subject and
\* the message
getSubjectForCommit(s) ==
  /\ pc[s] = "getSubject"
  /\ \E getErr \in BOOLEAN :
       LET subject == CommentSubject(datastore, request[s].body, getErr)
       IN /\ readHit' = [readHit EXCEPT ![s] =
                           ~getErr /\ DatastoreGet(datastore, locals[s].commitSHA) # {}]
          /\ message' = [message EXCEPT ![s] = NewMessage(s, subject)]
  /\ pc' = [pc EXCEPT ![s] = "send"]
  /\ UNCHANGED << datastore, devAppServer, live, request, locals, status,
                  threadLog, mdCalls, sendCalls, lastPush, firstFull >>

\* hookHandler calling mail.Send again when it returned an error
mailSendRetry(s) ==
  /\ pc[s] = "send"
  /\ sendCalls' = [sendCalls EXCEPT ![s] = @ + 1]
  /\ \E sendErr \in BOOLEAN :
       /\ status' = [status EXCEPT ![s] = IF sendErr THEN "running" ELSE "ok"]
       /\ pc' = [pc EXCEPT ![s] = IF sendErr THEN "send" ELSE "done"]
  /\ UNCHANGED << datastore, devAppServer, live, request, locals, message,
                  threadLog, readHit, mdCalls, lastPush, firstFull >>

\* hookHandler, lines 76-83: mail.Send and the response
mailSend(s) ==
  /\ pc[s] = "send"
  /\ sendCalls' = [sendCalls EXCEPT ![s] = @ + 1]
  /\ \E sendErr \in BOOLEAN :
       status' = [status EXCEPT ![s] = IF sendErr THEN "sendError" ELSE "ok"]
  /\ pc' = [pc EXCEPT ![s] = "done"]
  /\ UNCHANGED << datastore, devAppServer, live, request, locals, message,
                  threadLog, readHit, mdCalls, lastPush, firstFull >>

NoRequest == [eventType |-> "", body |-> Malformed]

InitRequests ==
  /\ pc = [s \in Slots |-> "idle"]
  /\ request = [s \in Slots |-> NoRequest]
  /\ locals = [s \in Slots |-> NoLocals]
  /\ message = [s \in Slots |-> NoMessage]
  /\ status = [s \in Slots |-> "none"]
  /\ threadLog = [s \in Slots |-> << >>]
  /\ readHit = [s \in Slots |-> FALSE]
  /\ mdCalls = [s \in Slots |-> 0]
  /\ sendCalls = [s \in Slots |-> 0]

\* a fresh deployment serving one request at a time
Init ==
  /\ datastore = {}
  /\ devAppServer \in BOOLEAN
  /\ live = { 1 }
  /\ lastPush = [sha \in SHAs |-> NoPush]
  /\ firstFull = [sha \in SHAs |-> ""]
  /\ InitRequests

Next ==
  \E s \in Slots :
    \/ hookHandler(s)
    \/ createThreadStep(s)
    \/ getSubjectForCommit(s)
    \/ mailSend(s)

Spec == Init /\ [][Next]_vars

(***************************************************************************)
(* One push request and one comment request served concurrently: the        *)
(* handlers of the two requests interleave at their datastore and mail      *)
(* calls.  Request 1 is the push, request 2 the comment.                    *)
(***************************************************************************)
RaceRequests(s) ==
  IF s = 1
  THEN { [eventType |-> "push", body |-> b] : b \in PushPayloads \cup { Malformed } }
  ELSE { [eventType |-> "commit_comment", body |-> b] :
           b \in CommentPayloads \cup { Malformed } }

\* hookHandler for the one request of slot s
hookHandlerOnce(s) ==
  /\ s \in live
  /\ pc[s] = "idle"
  /\ \E r \in RaceRequests(s), renderErr \in BOOLEAN :
       /\ request' = [request EXCEPT ![s] = r]
       /\ handlePayload(s, r.eventType, r.body, renderErr)
  /\ UNCHANGED << datastore, devAppServer, live, lastPush, firstFull >>

InitRace ==
  /\ datastore = {}
  /\ devAppServer \in BOOLEAN
  /\ live = { 1, 2 }
  /\ lastPush = [sha \in SHAs |-> NoPush]
  /\ firstFull = [sha \in SHAs |-> ""]
  /\ InitRequests

NextRace ==
  \E s \in Slots :
    \/ hookHandlerOnce(s)
    \/ createThreadStep(s)
    \/ getSubjectForCommit(s)
    \/ mailSend(s)

SpecRace == InitRace /\ [][NextRace]_vars

\* every started datastore or mail call returns, so each handler goes on
SpecRaceFair ==
  /\ SpecRace
  /\ \A s \in Slots :
       /\ WF_vars(createThreadStep(s))
       /\ WF_vars(getSubjectForCommit(s))
       /\ WF_vars(mailSend(s))

TypeOK ==
  /\ \A e \in datastore : e.key \in SHAs /\ e.thread.CommitSHA = e.key
  /\ \A s \in Slots : pc[s] \in { "idle", "createThread", "getSubject", "send", "done" }

(***************************************************************************)
(* Vocabulary of the properties                                            *)
(***************************************************************************)
\* request s ran handlePushPayload past its panics and its template
PushEntered(s) ==
  /\ request[s].eventType = "push"
  /\ locals[s] # NoLocals

\* request s ran handleCommitCommentPayload up to the registry read
CommentEntered(s) ==
  /\ request[s].eventType = "commit_comment"
  /\ locals[s] # NoLocals

\* handlePushPayload returned its message to hookHandler
PushReturned(s) == PushEntered(s) /\ message[s] # NoMessage

\* handleCommitCommentPayload returned its message to hookHandler
CommentReturned(s) == CommentEntered(s) /\ message[s] # NoMessage

\* every createThread call of the push of request s succeeded
AllCreated(s) == \A k \in DOMAIN threadLog[s] : threadLog[s][k] = "created"

\* the subject the registry holds for a commit id ("" when it holds none)
Stored(sha) == getSubjectResult(datastore, sha, FALSE)

(***************************************************************************)
(* C1: a comment on commit C whose registry read hits carries exactly the   *)
(* subject S that the push which registered C produced: the string stored   *)
(* in the registry, not the one built from the comment payload.             *)
(***************************************************************************)
C1_SubjectStable ==
  \A s \in Slots :
    (CommentReturned(s) /\ readHit[s]) =>
      LET sha == locals[s].commitSHA
      IN /\ sha \in SHAs
         /\ lastPush[sha] # NoPush
         /\ message[s].Subject = PushSubject(lastPush[sha])
         /\ message[s].Subject = Stored(sha)
         /\ message[s].Subject # FallbackSubject(request[s].body)

C1_Witness ==
  \E s \in Slots :
    /\ CommentReturned(s) /\ readHit[s] /\ status[s] = "ok"
    /\ message[s].Subject = "[org/repo] abc1234: Fix bug"

(***************************************************************************)
(* C2: the subject of a push with n >= 1 commits is                         *)
(* "[repoFullName] shortID: title" of its FIRST commit, and once all its    *)
(* puts succeeded the registry maps every commit id of the push to that one *)
(* subject.                                                                 *)
(***************************************************************************)
C2_Expected(payload) ==
  "[" \o payload.Repo.FullName \o "] "
      \o newDisplayCommit(payload.Commits[1], payload.Repo).ShortSHA \o ": "
      \o newDisplayCommit(payload.Commits[1], payload.Repo).Title

C2_PushSubjectRegistered ==
  \A s \in Slots :
    PushEntered(s) =>
      LET payload == request[s].body
      IN /\ locals[s].subject = C2_Expected(payload)
         /\ PushReturned(s) => message[s].Subject = C2_Expected(payload)
         /\ (PushReturned(s) /\ AllCreated(s)) =>
              \A i \in DOMAIN payload.Commits :
                DatastoreGet(datastore, payload.Commits[i].ID) =
                  { EmailThread(payload.Commits[i].ID, C2_Expected(payload)) }

C2_Witness ==
  \E s \in Slots :
    /\ PushReturned(s) /\ AllCreated(s) /\ pc[s] = "done"
    /\ Len(request[s].body.Commits) = 2
    /\ request[s].body.Commits[1].ID = "abc1234e"
    /\ request[s].body.Commits[2].ID = "abc1234f"
    /\ message[s].Subject = "[org/repo] abc1234: Fix bug"
    /\ Stored("abc1234e") = "[org/repo] abc1234: Fix bug"
    /\ Stored("abc1234f") = "[org/repo] abc1234: Fix bug"

(***************************************************************************)
(* C3 as stated: once a push P was processed with all its registry writes   *)
(* succeeding, a later comment on a commit of P whose read hits carries P's *)
(* subject whatever pushes came in between.                                 *)
(***************************************************************************)
C3_Original ==
  \A s \in Slots :
    (CommentReturned(s) /\ readHit[s]) =>
      LET sha == locals[s].commitSHA
      IN (sha \in SHAs /\ firstFull[sha] # "") =>
           message[s].Subject = firstFull[sha]

(***************************************************************************)
(* C3 as amended: a comment on commit C whose read hits carries the subject *)
(* of the push that most recently registered C, and every commit whose      *)
(* latest registration came from that same push is stored with that same    *)
(* subject; it is P's subject as long as no later push re-registered C.     *)
(***************************************************************************)
C3_LastWriterThreads ==
  \A s \in Slots :
    (CommentReturned(s) /\ readHit[s]) =>
      LET sha == locals[s].commitSHA
      IN /\ sha \in SHAs
         /\ message[s].Subject = PushSubject(lastPush[sha])
         /\ \A other \in SHAs :
              (lastPush[other] = lastPush[sha] /\ DatastoreGet(datastore, other) # {})
                => Stored(other) = message[s].Subject
         /\ (firstFull[sha] = PushSubject(lastPush[sha]))
                => message[s].Subject = firstFull[sha]

\* a comment on a commit that a later push re-registered under another subject
C3_Witness ==
  \E s \in Slots :
    /\ CommentReturned(s) /\ readHit[s]
    /\ firstFull[locals[s].commitSHA] # ""
    /\ firstFull[locals[s].commitSHA] # message[s].Subject

(***************************************************************************)
(* C4: the anchor link (ExtensionURL) of a push with exactly one commit is  *)
(* that commit's own URL; with two or more commits it is the compare URL.   *)
(***************************************************************************)
C4_AnchorLink ==
  \A s \in Slots :
    PushEntered(s) =>
      LET payload == request[s].body
          data    == locals[s].mailHtml.Data
      IN /\ Len(payload.Commits) = 1 =>
              /\ data.ExtensionURL = data.Commits[1].URL
              /\ data.ExtensionURL # payload.Compare
         /\ Len(payload.Commits) >= 2 =>
              /\ data.ExtensionURL = payload.Compare
              /\ \A i \in DOMAIN data.Commits :
                   data.ExtensionURL # data.Commits[i].URL

C4_Witness ==
  \E s \in Slots :
    /\ PushReturned(s)
    /\ Len(request[s].body.Commits) = 2
    /\ message[s].HTMLBody.Data.ExtensionURL = CompareURL

(***************************************************************************)
(* C5: when the registry read of a comment finds no entry, the subject is   *)
(* exactly "[repoFullName] " followed by the first 7 characters of the      *)
(* commit id.                                                               *)
(***************************************************************************)
C5_MissFallback ==
  \A s \in Slots :
    (CommentReturned(s) /\ ~readHit[s]) =>
      /\ message[s].Subject =
           "[" \o request[s].body.Repo.FullName \o "] "
               \o SubSeq(request[s].body.Comment.CommitID, 1, 7)
      /\ Len(message[s].Subject) = Len(request[s].body.Repo.FullName) + 3 + 7

C5_Witness ==
  \E s \in Slots :
    /\ CommentReturned(s) /\ ~readHit[s]
    /\ request[s].body.Comment.CommitID = "0123456789"
    /\ DatastoreGet(datastore, "0123456789") = {}
    /\ message[s].Subject = "[org/repo] 0123456"

(***************************************************************************)
(* C6: the display name of the pusher comes from the first commit, in       *)
(* payload order, whose author or committer username is the pusher's; in    *)
(* that commit the author is looked at before the committer; when no commit *)
(* matches it is the pusher's username.                                     *)
(***************************************************************************)
C6_Matching(commits, user) ==
  { i \in DOMAIN commits :
      \/ commits[i].Author.Username = user
      \/ commits[i].Committer.Username = user }

C6_ExpectedName(commits, user) ==
  IF C6_Matching(commits, user) = {}
  THEN user
  ELSE LET k == CHOOSE i \in C6_Matching(commits, user) :
                  \A j \in C6_Matching(commits, user) : i <= j
       IN IF commits[k].Author.Username = user
          THEN commits[k].Author.Name
          ELSE commits[k].Committer.Name

C6_SenderName ==
  \A s \in Slots :
    PushEntered(s) =>
      LET payload == request[s].body
      IN /\ locals[s].sender =
              C6_ExpectedName(payload.Commits, payload.Pusher.Name)
                \o " <" \o payload.Pusher.Name \o "@" \o AppID \o ".appspotmail.com>"
         /\ PushReturned(s) => message[s].Sender = locals[s].sender

\* the author of the first commit and the committer of the second both match
C6_Witness ==
  \E s \in Slots :
    /\ PushReturned(s)
    /\ request[s].body.Pusher.Name = "alice"
    /\ Len(request[s].body.Commits) = 2
    /\ request[s].body.Commits[1].Author.Username = "alice"
    /\ request[s].body.Commits[2].Author.Username # "alice"
    /\ request[s].body.Commits[2].Committer.Username = "alice"
    /\ message[s].Sender = "Alice A <alice@bettermail.appspotmail.com>"

(***************************************************************************)
(* C7: createThread is an idempotent upsert: storing the same (commit id,   *)
(* subject) twice leaves the registry as after the first time and reads     *)
(* return that subject; of two different subjects the last one stored is    *)
(* read; a commit id never has more than one entry.                         *)
(***************************************************************************)
C7_Subjects == { PushSubject(p) : p \in { q \in PushPayloads : ~PushPanics(q) } }

C7_PutIdempotent ==
  /\ \A sha \in SHAs : Cardinality(DatastoreGet(datastore, sha)) <= 1
  /\ \A sha \in SHAs, s1, s2 \in C7_Subjects :
       LET once  == createThread(datastore, sha, s1, FALSE)
           twice == createThread(once, sha, s1, FALSE)
           over  == createThread(once, sha, s2, FALSE)
       IN /\ twice = once
          /\ getSubjectResult(once, sha, FALSE) = s1
          /\ getSubjectResult(twice, sha, FALSE) = s1
          /\ getSubjectResult(over, sha, FALSE) = s2
          /\ Cardinality(DatastoreGet(once, sha)) = 1
          /\ Cardinality(DatastoreGet(over, sha)) = 1
          /\ \A other \in SHAs \ { sha } :
               DatastoreGet(over, other) = DatastoreGet(datastore, other)

\* one push stored the same commit twice, and an earlier push had stored it
\* under another subject
C7_Witness ==
  \E s \in Slots :
    /\ PushReturned(s) /\ AllCreated(s)
    /\ Len(request[s].body.Commits) = 2
    /\ request[s].body.Commits[1] = request[s].body.Commits[2]
    /\ firstFull[request[s].body.Commits[1].ID] # ""
    /\ firstFull[request[s].body.Commits[1].ID] # locals[s].subject
    /\ DatastoreGet(datastore, request[s].body.Commits[1].ID) =
         { EmailThread(request[s].body.Commits[1].ID, locals[s].subject) }

(***************************************************************************)
(* C8: a comment with an empty body makes no call of the Markdown           *)
(* collaborator and the body given to the template is empty; a non-empty    *)
(* body goes through the collaborator exactly once.                         *)
(***************************************************************************)
C8_MarkdownOnlyNonEmpty ==
  \A s \in Slots :
    ( /\ request[s].eventType = "commit_comment"
      /\ request[s].body # Malformed
      /\ ~CommentPanics(request[s].body) ) =>
      LET body == request[s].body.Comment.Body
      IN /\ body = "" =>
              /\ mdCalls[s] = 0
              /\ CommentEntered(s) => locals[s].mailHtml.Data.Body = ""
         /\ body # "" =>
              /\ mdCalls[s] = 1
              /\ CommentEntered(s) =>
                   locals[s].mailHtml.Data.Body = renderMessageMarkdown(body)

C8_Witness ==
  \E s \in Slots :
    /\ CommentReturned(s)
    /\ request[s].body.Comment.Body = ""
    /\ mdCalls[s] = 0
    /\ message[s].HTMLBody.Data.Body = ""

(***************************************************************************)
(* C9: a createThread whose Put fails does not stop the push: every commit  *)
(* is still attempted, the message with the derived subject is returned and *)
(* handed to mail.Send, the commits whose Put succeeded are registered, and *)
(* a commit whose Put failed is left as it was (unregistered if no push had *)
(* stored it).                                                              *)
(***************************************************************************)
C9_PutFailureNonFatal ==
  \A s \in Slots :
    (request[s].eventType = "push" /\ threadLog[s] # << >>
       /\ pc[s] \in { "send", "done" }) =>
      LET payload == request[s].body
          commits == payload.Commits
      IN /\ Len(threadLog[s]) = Len(commits)
         /\ message[s] # NoMessage
         /\ message[s].Subject = PushSubject(payload)
         /\ pc[s] = "done" =>
              (sendCalls[s] = 1 /\ status[s] \in { "ok", "sendError" })
         /\ \A i \in DOMAIN commits :
              threadLog[s][i] = "created" =>
                DatastoreGet(datastore, commits[i].ID) =
                  { EmailThread(commits[i].ID, PushSubject(payload)) }
         /\ \A i \in DOMAIN commits :
              ( /\ \A j \in DOMAIN commits :
                     commits[j].ID = commits[i].ID => threadLog[s][j] = "failed"
                /\ lastPush[commits[i].ID] = NoPush )
                => DatastoreGet(datastore, commits[i].ID) = {}

\* the first Put failed, the second succeeded, the mail went out
C9_Witness ==
  \E s \in Slots :
    /\ PushReturned(s) /\ pc[s] = "done" /\ status[s] = "ok"
    /\ threadLog[s] = << "failed", "created" >>
    /\ request[s].body.Commits[1].ID # request[s].body.Commits[2].ID
    /\ Stored(request[s].body.Commits[1].ID) = ""
    /\ Stored(request[s].body.Commits[2].ID) = message[s].Subject

(***************************************************************************)
(* C10: an event type other than "push" and "commit_comment" gives the      *)
(* no-op outcome whatever the body is, a malformed body under a recognized  *)
(* type gives the error outcome; in both no message is built, the registry  *)
(* is not called and no mail is sent, and the two outcomes differ.          *)
(***************************************************************************)
C10_Quiet(s) ==
  /\ pc[s] = "done"
  /\ locals[s] = NoLocals
  /\ message[s] = NoMessage
  /\ threadLog[s] = << >>
  /\ ~readHit[s]
  /\ mdCalls[s] = 0
  /\ sendCalls[s] = 0

C10_DispatchOutcomes ==
  \A s \in Slots :
    pc[s] # "idle" =>
      /\ request[s].eventType \notin { "push", "commit_comment" } =>
           (C10_Quiet(s) /\ status[s] = "unhandled")
      /\ ( /\ request[s].eventType \in { "push", "commit_comment" }
           /\ request[s].body = Malformed ) =>
           (C10_Quiet(s) /\ status[s] = "error")

C10_Witness ==
  \E s \in Slots :
    /\ request[s].eventType = "issues"
    /\ request[s].body = Malformed
    /\ status[s] = "unhandled"
    /\ pc[s] = "done"

(***************************************************************************)
(* C11: every message a processor returns has a non-empty subject, at least *)
(* one recipient, and a sender of the form                                  *)
(* "{displayName} <{username}@{appDomain}>"; the subject of a comment       *)
(* message is non-empty on a registry hit and on a miss.                    *)
(***************************************************************************)
\* the username of the actor of request s
C11_UserName(s) ==
  IF request[s].eventType = "push"
  THEN request[s].body.Pusher.Name
  ELSE request[s].body.Sender.Login

\* "<{username}@{appDomain}>" preceded by a space
C11_Mailbox(s) == " <" \o C11_UserName(s) \o "@" \o AppID \o ".appspotmail.com>"

C11_NotificationWellFormed ==
  \A s \in Slots :
    message[s] # NoMessage =>
      /\ PushReturned(s) \/ CommentReturned(s)
      /\ message[s].Subject # ""
      /\ Len(message[s].To) >= 1
      /\ \A i \in DOMAIN message[s].To : message[s].To[i] # ""
      /\ Len(message[s].Sender) > Len(C11_Mailbox(s))
      /\ SubSeq(message[s].Sender,
                Len(message[s].Sender) - Len(C11_Mailbox(s)) + 1,
                Len(message[s].Sender)) = C11_Mailbox(s)
      /\ CommentReturned(s) =>
           message[s].Sender = C11_UserName(s) \o C11_Mailbox(s)

\* a comment message built on a registry miss, on the development server
C11_Witness ==
  \E s \in Slots :
    /\ CommentReturned(s) /\ ~readHit[s]
    /\ devAppServer
    /\ message[s].To = << "mihai@quip.com" >>
    /\ message[s].Sender = "dave <dave@bettermail.appspotmail.com>"
    /\ message[s].Subject # ""

(***************************************************************************)
(* C12: branchName is the ref without its first 11 characters               *)
(* ("refs/heads/main" gives "main"), and a push whose ref is shorter than   *)
(* 11 characters does not crash the request.                                *)
(***************************************************************************)
C12_RefGuarded ==
  \A s \in Slots :
    ( /\ pc[s] # "idle"
      /\ request[s].eventType = "push"
      /\ request[s].body # Malformed
      /\ ~IsNil(request[s].body, "Ref") ) =>
      LET ref == request[s].body.Ref
      IN /\ (Len(ref) >= 11 /\ PushEntered(s)) =>
              /\ locals[s].mailHtml.Data.BranchName = SubSeq(ref, 12, Len(ref))
              /\ ref = "refs/heads/main" =>
                   locals[s].mailHtml.Data.BranchName = "main"
         /\ (Len(ref) < 11 /\ Len(request[s].body.Commits) >= 1) =>
              status[s] # "panic"

(***************************************************************************)
(* C13: a fatal error ends only its own request, with a failure status: a   *)
(* render error hands no message to mail.Send; a mail.Send error is         *)
(* reported and not retried, so a request calls mail.Send at most once, and *)
(* only with the complete message a processor returned.                     *)
(***************************************************************************)
C13_FatalErrors ==
  \A s \in Slots :
    /\ sendCalls[s] <= 1
    /\ sendCalls[s] = 1 =>
         /\ message[s] # NoMessage
         /\ DOMAIN message[s] = { "Sender", "To", "Subject", "HTMLBody" }
         /\ pc[s] = "done"
         /\ status[s] \in { "ok", "sendError" }
    /\ status[s] \in { "error", "panic", "unhandled" } =>
         /\ pc[s] = "done"
         /\ message[s] = NoMessage
         /\ sendCalls[s] = 0
    /\ status[s] = "sendError" => (pc[s] = "done" /\ sendCalls[s] = 1)
    /\ pc[s] = "done" => status[s] # "running"

\* mail.Send failed for a comment message: one call, the request has failed
C13_Witness ==
  \E s \in Slots :
    /\ CommentReturned(s)
    /\ status[s] = "sendError"
    /\ sendCalls[s] = 1
    /\ pc[s] = "done"

(***************************************************************************)
(* C14 as stated: no error of one request changes the outcome of another;   *)
(* the subject of a comment on commit C is not influenced by a push that    *)
(* ended in a fatal error.  With that push the only one, the comment would  *)
(* carry the subject it carries without any push: the fallback.             *)
(***************************************************************************)
C14_Original ==
  \A p, c \in Slots :
    ( /\ request[p].eventType = "push"
      /\ pc[p] = "done"
      /\ status[p] \in { "error", "panic", "sendError" }
      /\ CommentReturned(c) ) =>
      message[c].Subject = FallbackSubject(request[c].body)

(***************************************************************************)
(* C14 as amended: a push ended by a decode error, a render error or a      *)
(* crash has written nothing, so the comment carries the fallback; the      *)
(* subject of a comment depends only on the registry: on a hit it is the    *)
(* subject of a push whose createThread for that commit succeeded, also     *)
(* when that push ended in a mail.Send error, and on a miss (so also when   *)
(* every Put for the commit failed) it is the fallback.                     *)
(***************************************************************************)
C14_Isolation ==
  \A p, c \in Slots :
    (request[p].eventType = "push" /\ CommentReturned(c)) =>
      /\ status[p] \in { "error", "panic" } =>
           /\ threadLog[p] = << >>
           /\ datastore = {}
           /\ message[c].Subject = FallbackSubject(request[c].body)
      /\ readHit[c] =>
           /\ PushEntered(p)
           /\ \E i \in DOMAIN threadLog[p] :
                /\ threadLog[p][i] = "created"
                /\ request[p].body.Commits[i].ID = request[c].body.Comment.CommitID
           /\ message[c].Subject = locals[p].subject
      /\ ~readHit[c] => message[c].Subject = FallbackSubject(request[c].body)
      /\ ( /\ PushEntered(p)
           /\ \A i \in DOMAIN threadLog[p] :
                request[p].body.Commits[i].ID = request[c].body.Comment.CommitID
                  => threadLog[p][i] = "failed" ) =>
           message[c].Subject = FallbackSubject(request[c].body)

\* the comment carries the subject of a push whose mail was never sent
C14_Witness ==
  \E p, c \in Slots :
    /\ PushReturned(p) /\ pc[p] = "done" /\ status[p] = "sendError"
    /\ CommentReturned(c) /\ readHit[c] /\ status[c] = "ok"
    /\ message[c].Subject = message[p].Subject

(***************************************************************************)
(* C15: a push containing commit C races with a comment on C.  The comment  *)
(* that passed its own decoding and rendering is never held up by the push  *)
(* (its next step is enabled whatever the push is doing), never fails       *)
(* because of it, and completes with a notification whose subject is the    *)
(* push's subject S when its read hit and "[repoFullName] shortID" when it  *)
(* missed, never anything else.                                             *)
(***************************************************************************)
C15_Safe ==
  \A p, c \in Slots :
    (request[p].eventType = "push" /\ CommentEntered(c) /\ status[c] # "panic") =>
      /\ status[c] \in { "running", "ok", "sendError" }
      /\ pc[c] = "getSubject" => ENABLED getSubjectForCommit(c)
      /\ pc[c] = "send" => ENABLED mailSend(c)
      /\ pc[c] \in { "send", "done" } => CommentReturned(c)
      /\ CommentReturned(c) =>
           LET sha == request[c].body.Comment.CommitID
               fallback == "[" \o request[c].body.Repo.FullName \o "] "
                               \o Prefix(sha, 7)
           IN /\ readHit[c] =>
                   /\ PushEntered(p)
                   /\ \E i \in DOMAIN request[p].body.Commits :
                        request[p].body.Commits[i].ID = sha
                   /\ message[c].Subject = C2_Expected(request[p].body)
              /\ ~readHit[c] => message[c].Subject = fallback

C15_Race ==
  /\ []C15_Safe
  /\ \A c \in Slots :
       (CommentEntered(c) /\ status[c] # "panic")
         ~> (pc[c] = "done" /\ CommentReturned(c) /\ sendCalls[c] = 1)

\* the comment read the push's subject while the push was still registering
C15_Witness ==
  \E p, c \in Slots :
    /\ PushEntered(p) /\ pc[p] = "createThread"
    /\ Len(threadLog[p]) < Len(request[p].body.Commits)
    /\ CommentReturned(c) /\ readHit[c]
    /\ message[c].Subject = locals[p].subject

(***************************************************************************)
(* C16 as stated: a registry entry for a commit is written once: an entry   *)
(* that exists is never changed by a later step.                            *)
(***************************************************************************)
C16_Original ==
  [][ \A sha \in SHAs :
        DatastoreGet(datastore, sha) # {} =>
          DatastoreGet(datastore', sha) = DatastoreGet(datastore, sha) ]_vars

\* the step is a createThread call of the push of request s
C16_PushWrite(s) ==
  /\ pc[s] = "createThread"
  /\ request[s].eventType = "push"
  /\ Len(threadLog'[s]) = Len(threadLog[s]) + 1
  /\ LET sha == locals[s].displayCommits[Len(threadLog'[s])].SHA
     IN /\ datastore' = DatastorePut(datastore, sha,
                                     EmailThread(sha, locals[s].subject))
        /\ \A other \in SHAs \ { sha } :
             DatastoreGet(datastore', other) = DatastoreGet(datastore, other)

(***************************************************************************)
(* C16 as amended: the registry is written only at push time, one entry per *)
(* createThread call, and a later push containing the commit overwrites     *)
(* its entry; the steps of a comment request (its read, hit or miss, and    *)
(* its send) and the requests with an unrecognized event type or an         *)
(* undecodable body leave every entry unchanged.                            *)
(***************************************************************************)
C16_WriteDiscipline ==
  [][ /\ datastore' # datastore => \E s \in Slots : C16_PushWrite(s)
      /\ \A s \in Slots :
           ( \/ request[s].eventType # "push" /\ pc'[s] # pc[s]
             \/ request'[s].eventType # "push" /\ request'[s] # request[s]
             \/ status'[s] \in { "error", "unhandled", "panic" }
                  /\ status'[s] # status[s] )
             => datastore' = datastore ]_vars

\* a push has replaced the entry an earlier push wrote for the commit, and a
\* later comment on it has read the registry
C16_Witness ==
  \E s \in Slots, sha \in SHAs :
    /\ CommentReturned(s) /\ readHit[s]
    /\ request[s].body.Comment.CommitID = sha
    /\ firstFull[sha] # ""
    /\ Stored(sha) # firstFull[sha]
    /\ message[s].Subject = Stored(sha)

(***************************************************************************)
(* C17 as stated, its consequence for a failed send: a push whose mail.Send *)
(* failed has registered all its commits, every one of them is in the       *)
(* registry under the push's subject.                                       *)
(***************************************************************************)
C17_Original ==
  \A s \in Slots :
    (PushReturned(s) /\ status[s] = "sendError") =>
      \A i \in DOMAIN locals[s].displayCommits :
        Stored(locals[s].displayCommits[i].SHA) = locals[s].subject

(***************************************************************************)
(* C17 as amended: inside a push the body is rendered before any            *)
(* createThread call and createThread has been called for every commit      *)
(* before the message reaches mail.Send.  A push whose render failed made   *)
(* no registry write; a push whose send failed has made all its writes, and *)
(* each commit whose write succeeded is in the registry under the push's    *)
(* subject although the notification was never sent.                        *)
(***************************************************************************)
C17_Ordering ==
  \A s \in Slots :
    request[s].eventType = "push" =>
      /\ status[s] = "error" =>
           (threadLog[s] = << >> /\ message[s] = NoMessage /\ pc[s] = "done")
      /\ threadLog[s] # << >> =>
           (PushEntered(s) /\ locals[s].mailHtml = Execute("push", PushData(request[s].body)))
      /\ pc[s] = "createThread" =>
           /\ PushEntered(s)
           /\ Len(threadLog[s]) < Len(locals[s].displayCommits)
           /\ message[s] = NoMessage
           /\ sendCalls[s] = 0
      /\ (PushReturned(s) \/ sendCalls[s] > 0) =>
           Len(threadLog[s]) = Len(request[s].body.Commits)
      /\ (PushReturned(s) /\ status[s] = "sendError") =>
           \A i \in DOMAIN threadLog[s] :
             threadLog[s][i] = "created" =>
               Stored(locals[s].displayCommits[i].SHA) = locals[s].subject

\* two commits are registered under the subject of a push whose mail.Send failed
C17_Witness ==
  \E s \in Slots :
    /\ PushReturned(s) /\ status[s] = "sendError" /\ sendCalls[s] = 1
    /\ Len(threadLog[s]) = 2 /\ AllCreated(s)
    /\ locals[s].displayCommits[1].SHA # locals[s].displayCommits[2].SHA
    /\ \A i \in DOMAIN threadLog[s] :
         Stored(locals[s].displayCommits[i].SHA) = locals[s].subject

\* the subject of a push, from its repository and its first commit
C18_Subject(push) ==
  "[" \o push.Repo.FullName \o "] " \o Prefix(push.Commits[1].ID, 7)
      \o ": " \o FirstLine(push.Commits[1].Message)

\* every entry is keyed by a pushed commit and holds the subject of the push
\* that wrote it last
C18_Entries ==
  \A e \in datastore :
    /\ e.key \in SHAs
    /\ e.thread.CommitSHA = e.key
    /\ lastPush[e.key] # NoPush
    /\ e.thread.Subject = C18_Subject(lastPush[e.key])
    /\ \A other \in datastore : other.key = e.key => other = e

\* a step that creates or alters the entry of a key is a createThread call of
\* a push whose commit list contains the key, storing that push's subject
C18_Writes ==
  \A key \in { e.key : e \in datastore \cup datastore' } :
    DatastoreGet(datastore', key) # DatastoreGet(datastore, key) =>
      \E s \in Slots :
        /\ request[s].eventType = "push"
        /\ pc[s] = "createThread"
        /\ request'[s] = request[s]
        /\ \E i \in DOMAIN request[s].body.Commits :
             request[s].body.Commits[i].ID = key
        /\ DatastoreGet(datastore', key)
             = { [CommitSHA |-> key, Subject |-> C18_Subject(request[s].body)] }

(***************************************************************************)
(* C18: in every reachable state every registry entry (C, S) was written by *)
(* the processing of a push whose commit list contains C, and S is          *)
(* "[repoFullName] " + the first 7 characters of that push's first commit   *)
(* id + ": " + that commit's title; no other step creates or alters an      *)
(* entry.                                                                   *)
(***************************************************************************)
C18_Provenance == []C18_Entries /\ [][C18_Writes]_vars

\* the registry holds two commits registered by two pushes, under two subjects
C18_Witness ==
  /\ \A sha \in SHAs : Stored(sha) # ""
  /\ \E a, b \in SHAs : a # b /\ Stored(a) # Stored(b)
  /\ \A sha \in SHAs : Stored(sha) = C18_Subject(lastPush[sha])

(***************************************************************************)
(* C19: comment processing never fails because of the registry.  A failed   *)
(* registry read, a missing entry and a stored entry whose subject is the   *)
(* empty string all give the fallback subject "[repoFullName] shortID",     *)
(* the read is always possible, and the notification is produced and sent.  *)
(***************************************************************************)
C19_ReadFailureIsMiss ==
  \A s \in Slots :
    (CommentEntered(s) /\ status[s] # "panic") =>
      LET payload  == request[s].body
          sha      == payload.Comment.CommitID
          fallback == "[" \o payload.Repo.FullName \o "] " \o Prefix(sha, 7)
          blank    == DatastorePut(datastore, sha, EmailThread(sha, ""))
      IN /\ status[s] \in { "running", "ok", "sendError" }
         /\ pc[s] = "getSubject" => ENABLED getSubjectForCommit(s)
         /\ pc[s] # "getSubject" => CommentReturned(s)
         /\ (CommentReturned(s) /\ ~readHit[s]) => message[s].Subject = fallback
         /\ CommentSubject(datastore, payload, TRUE) = fallback
         /\ CommentSubject({}, payload, FALSE) = fallback
         /\ CommentSubject(blank, payload, FALSE) = fallback

\* the read failed although the registry holds an entry for the commit, and
\* the notification went out with the fallback subject
C19_Witness ==
  \E s \in Slots :
    /\ CommentReturned(s) /\ ~readHit[s]
    /\ Stored(request[s].body.Comment.CommitID) # ""
    /\ message[s].Subject = FallbackSubject(request[s].body)
    /\ status[s] = "ok" /\ sendCalls[s] = 1

\* request s is a push whose body decoded and whose commit list is empty
C20_EmptyPush(s) ==
  /\ request[s].eventType = "push"
  /\ request[s].body # Malformed
  /\ Len(PayloadCommits(request[s].body)) = 0

(***************************************************************************)
(* C20: a decodable push payload with an empty commit list never yields a   *)
(* notification.  The request aborts before any createThread call and       *)
(* before mail.Send, so it writes nothing to the registry and sends no      *)
(* mail; with a well-formed ref it is the selection of the first display    *)
(* commit that aborts it, the same payload with one commit goes through.    *)
(***************************************************************************)
C20_EmptyPushAborts ==
  \A s \in Slots :
    C20_EmptyPush(s) =>
      /\ pc[s] = "done"
      /\ status[s] = "panic"
      /\ locals[s] = NoLocals
      /\ message[s] = NoMessage
      /\ threadLog[s] = << >>
      /\ sendCalls[s] = 0
      /\ ~ENABLED createThreadStep(s)
      /\ ~ENABLED mailSend(s)
      /\ request[s].body \in PushPayloads =>
           \A c \in Commits :
             PushPanics([request[s].body EXCEPT !.Commits = << c >>])
               = (Len(request[s].body.Ref) < 11)

\* an empty push on a branch was received while the registry held entries
C20_Witness ==
  \E s \in Slots :
    /\ C20_EmptyPush(s)
    /\ request[s].body \in PushPayloads
    /\ request[s].body.Ref = "refs/heads/main"
    /\ status[s] = "panic"
    /\ datastore # {}

====
